---- MODULE Spec2Model ----
(***************************************************************************)
(* Cleen pipeline execution engine: PipelineStep (cleen/core/base.py),      *)
(* ParallelExecutor (cleen/pipeline/executor.py) and Pipeline.run           *)
(* (cleen/pipeline/builder.py).                                             *)
(*                                                                          *)
(* A dataset is a sequence of rows.  A row carries the position it had in   *)
(* the caller's dataset (id), one data column (val; a value > 0 does not    *)
(* match the validators' pattern) and the checkpoint column (ts, in days).  *)
(* The pandas row index is not modelled: pd.concat(ignore_index=True)       *)
(* renumbers it and nothing in the engine reads it.                         *)
(***************************************************************************)
EXTENDS Integers, Sequences, FiniteSets, TLC

VARIABLES
    steps,               \* Pipeline.steps / the steps argument of execute
    partitions,          \* ParallelExecutor.partitions
    use_disk,            \* ParallelExecutor.use_disk
    metrics,             \* Pipeline.metrics: TRUE when a sink is configured
    incremental_config,  \* Pipeline.incremental_config
    pc,                  \* position of the calling thread
    caller_df,           \* the dataset the caller passed
    df,                  \* local df of run / argument df of execute
    error_handling,      \* the error_handling argument of run
    futures,             \* one entry per submitted partition task
    results,             \* local results of execute
    cursor,              \* position of "for future in futures"
    raised,              \* exception travelling through execute's with block
    path,                \* which branch of execute produced exec_out
    exec_out,            \* what execute returned or raised
    run_out,             \* what run returned or raised
    collect_calls,       \* the calls metrics.collect received, in order
    printed_steps,       \* step names printed by "Error in step {step.name}"
    overtaken,           \* history: a task finished before a lower-indexed one
    limit,               \* the memory_limit argument of ParallelExecutor()
    memory_limit,        \* ParallelExecutor.memory_limit, in KiB
    total_memory,        \* psutil.virtual_memory().total, in KiB
    new_out,             \* what ParallelExecutor() returned or raised
    step_log,            \* history: the steps each run of the step chain applied
    builder,             \* the attributes of the PipelineBuilder
    calls,               \* history: the add_step calls made on the builder
    built,               \* history: the Pipeline as build() returned it
    df_at_call,          \* history: the caller's dataset when it made the call
    validator,           \* the validator a PipelineStep wraps, with its configuration
    validate_out,        \* what validator.validate returned or raised
    step_out,            \* what PipelineStep.execute returned or raised
    chain_runs,          \* history: how often each task has run the step chain
    running_at_raise,    \* history: a task was running when a failure left the for loop
    now,                 \* the day pd.Timestamp.now() gives
    kept                 \* history: an earlier run of the pipeline and its outcome

vars == <<steps, partitions, use_disk, metrics, incremental_config, pc,
          caller_df, df, error_handling, futures, results, cursor, raised,
          path, exec_out, run_out, collect_calls, printed_steps, overtaken,
          limit, memory_limit, total_memory, new_out, step_log, builder,
          calls, built, df_at_call, validator, validate_out, step_out,
          chain_runs, running_at_raise, now, kept>>

\* the state of the constructor call of the executor
ctor == <<limit, memory_limit, total_memory, new_out>>

\* the state of the builder
bld == <<builder, calls, built>>

\* the state of a call of PipelineStep.execute on its own
vld == <<validator, validate_out, step_out>>

\* what the history keeps of the runs of the step chain
hist == <<chain_runs, running_at_raise>>

\* the clock, and what the history keeps of an earlier run
env == <<now, kept>>

--------------------------------------------------------------------------
(* Bounds of the model *)

MaxRows == 3
MaxSteps == 2
MaxPartitions == 4
RunMaxRows == 2
RunMaxSteps == 1
MaxLookback == 1

(* pd.Timestamp.now() at the first run, in days; the clock is read once per
   run *)
Now == 2

Stamps == 0..Now
Vals == {0, 1}

--------------------------------------------------------------------------
(* Exceptions and outcomes *)

NoExc == [type |-> "none", msg |-> ""]
Exc(t, m) == [type |-> t, msg |-> m]

Returned(d) == [status |-> "returned", data |-> d, exc |-> NoExc]
Raised(e) == [status |-> "raised", data |-> <<>>, exc |-> e]
Pending == [status |-> "pending", data |-> <<>>, exc |-> NoExc]

\* no earlier run is kept
NoRun ==
    [valid |-> FALSE, input |-> <<>>, windowed |-> <<>>,
     error_handling |-> [present |-> FALSE, num |-> 0, den |-> 1],
     out |-> Pending]

--------------------------------------------------------------------------
(* Units wrapped by a PipelineStep *)

\* BaseProcessor implementations
Processors == {"ColumnSanitizer", "Aggregator"}
\* BaseValidator implementations: PatternValidator, by its error_handling
Validators == {"PatternQuarantine", "PatternRaise"}
StepKinds == Processors \union Validators

\* isinstance(self.processor, BaseProcessor)
IsProcessor(unit) == unit \in Processors

\* ValidMask rejecting only the first row that does not match
ValidMaskFirstMismatch(d) ==
    [i \in 1..Len(d) |-> d[i].val = 0 \/ \E j \in 1..(i - 1) : d[j].val # 0]

\* PatternValidator.validate: valid_mask &= df[col].str.match(pattern)
ValidMask(d) == [i \in 1..Len(d) |-> d[i].val = 0]

MaskAll(m) == \A i \in 1..Len(m) : m[i]

\* raise ValueError(f"Pattern validation failed for ... rows")
PatternValidationFailed == Exc("ValueError", "Pattern validation failed")

\* PatternValidator.validate
Validate(unit, d) ==
    IF unit = "PatternQuarantine"
    THEN [status |-> "returned", mask |-> ValidMask(d), exc |-> NoExc]
    ELSE IF ~MaskAll(ValidMask(d))
         THEN [status |-> "raised", mask |-> <<>>, exc |-> PatternValidationFailed]
         ELSE [status |-> "returned", mask |-> ValidMask(d), exc |-> NoExc]

\* the exception of a division by a row count of 0
DivisionByZero == Exc("ZeroDivisionError", "division by zero")

\* BaseProcessor.process.  ColumnSanitizer returns a copy with the same rows;
\* Aggregator stands for a processor that writes a dataset-wide statistic
\* (here the row count) into the frame it is given, returns that frame, and
\* divides by the row count.
Process(unit, d) ==
    IF unit = "ColumnSanitizer"
    THEN Returned(d)
    ELSE IF Len(d) = 0
         THEN Raised(DivisionByZero)
         ELSE Returned([i \in 1..Len(d) |-> [d[i] EXCEPT !.val = Len(d)]])

\* Select that stops at the first false mask entry
RECURSIVE SelectWhile(_, _)
SelectWhile(d, m) ==
    IF Len(d) = 0 THEN <<>>
    ELSE IF m[1] THEN <<d[1]>> \o SelectWhile(Tail(d), Tail(m))
         ELSE <<>>

\* the unit returns the frame object it was given, with its writes in it;
\* ColumnSanitizer works on df.copy() and df[mask] is a new frame
InPlace(unit) == unit = "Aggregator"

\* df[mask]: the rows whose mask entry is true, in order
RECURSIVE Select(_, _)
Select(d, m) ==
    IF Len(d) = 0 THEN <<>>
    ELSE IF m[1] THEN <<d[1]>> \o Select(Tail(d), Tail(m))
         ELSE Select(Tail(d), Tail(m))

\* PipelineStep.execute
StepExecute(unit, d) ==
    IF IsProcessor(unit)
    THEN Process(unit, d)
    ELSE LET v == Validate(unit, d)
         IN  IF v.status = "raised" THEN Raised(v.exc)
             ELSE Returned(Select(d, v.mask))

--------------------------------------------------------------------------
(* SchemaValidator and PatternValidator behind PipelineStep.execute *)

\* A column rule of a SchemaValidator.  The datasets have the column "val";
\* "other" is a column they do not have.  A value 0 of val is a float, is >=
\* min, matches the regex and is one of the options; a value > 0 is none of
\* these.
Rule(column, type, min, regex, options, required) ==
    [column |-> column, type |-> type, min |-> min, regex |-> regex,
     options |-> options, required |-> required]

\* SchemaValidator.VALID_ERROR_ACTIONS
VALID_ERROR_ACTIONS == {"reject", "quarantine", "ignore"}

\* SchemaValidator.DEFAULT_ERROR_HANDLING
DEFAULT_ERROR_HANDLING ==
    [missing_required |-> "reject", invalid_type |-> "quarantine",
     invalid_value |-> "quarantine", invalid_format |-> "quarantine"]

\* what validate gave: a per-row mask, a single bool, or an exception
MaskOut(m) == [status |-> "returned", ismask |-> TRUE, mask |-> m, exc |-> NoExc]
BoolOut == [status |-> "returned", ismask |-> FALSE, mask |-> <<>>, exc |-> NoExc]
RaisedOut(e) == [status |-> "raised", ismask |-> FALSE, mask |-> <<>>, exc |-> e]
NoOut == [status |-> "pending", ismask |-> FALSE, mask |-> <<>>, exc |-> NoExc]

\* a check mask: to_numeric(...).notna(), df[column] >= min,
\* str.match(regex).fillna(False), isin(options)
CheckMask(d) == [i \in 1..Len(d) |-> d[i].val = 0]

\* mask &= other
MaskAnd(a, b) == [i \in 1..Len(a) |-> a[i] /\ b[i]]

\* the checks of one present column, in the order of the code, each named by
\* the error_handling key that governs it.  A "date" type computes a mask
\* that is not used; min is read only inside the "float" branch.
ColumnChecks(rule) ==
    (IF rule.type = "float" THEN <<"invalid_type">> ELSE <<>>)
    \o (IF rule.type = "float" /\ rule.min THEN <<"invalid_value">> ELSE <<>>)
    \o (IF rule.regex THEN <<"invalid_format">> ELSE <<>>)
    \o (IF rule.options THEN <<"invalid_value">> ELSE <<>>)

\* a check of the rule finds a row that fails it, under the action "reject"
Rejects(rule, eh, d) ==
    \E c \in 1..Len(ColumnChecks(rule)) :
        ~MaskAll(CheckMask(d)) /\ eh[ColumnChecks(rule)[c]] = "reject"

\* SchemaValidator.validate: the loop over self.rules from rule k on.  A
\* check whose mask is not all-true under the action "reject" makes validate
\* "return False"; so does a required column that is missing.
RECURSIVE SchemaValidateFrom(_, _, _, _, _)
SchemaValidateFrom(schema, eh, d, k, valid_mask) ==
    IF k > Len(schema) THEN MaskOut(valid_mask)
    ELSE IF schema[k].column = "val"
         THEN IF Rejects(schema[k], eh, d)
              THEN BoolOut
              ELSE SchemaValidateFrom(schema, eh, d, k + 1,
                       IF Len(ColumnChecks(schema[k])) > 0
                       THEN MaskAnd(valid_mask, CheckMask(d))
                       ELSE valid_mask)
         ELSE IF schema[k].required /\ eh.missing_required = "reject"
              THEN BoolOut
              ELSE SchemaValidateFrom(schema, eh, d, k + 1, valid_mask)

\* SchemaValidator.validate: valid_mask = pd.Series(True, index=df.index)
SchemaValidate(schema, eh, d) ==
    SchemaValidateFrom(schema, eh, d, 1, [i \in 1..Len(d) |-> TRUE])

\* validator.validate(d), for both validator classes
ValidateUnit(v, d) ==
    IF v.class = "SchemaValidator"
    THEN SchemaValidate(v.rules, v.error_handling, d)
    ELSE LET r == Validate(v.unit, d)
         IN  IF r.status = "raised" THEN RaisedOut(r.exc) ELSE MaskOut(r.mask)

\* df[False]: a bool is looked up as a column label, and no column is named
\* False
KeyErrorFalse == Exc("KeyError", "False")

\* PipelineStep.execute on a validator: df[self.processor.validate(df)]
StepExecuteValidator(v, d) ==
    LET r == ValidateUnit(v, d)
    IN  IF r.status = "raised" THEN Raised(r.exc)
        ELSE IF r.ismask THEN Returned(Select(d, r.mask))
             ELSE Raised(KeyErrorFalse)

\* the schemas of the model
Schemas ==
    {<<>>,
     <<Rule("val", "none", FALSE, TRUE, FALSE, FALSE)>>,
     <<Rule("val", "none", FALSE, FALSE, TRUE, TRUE)>>,
     <<Rule("val", "float", FALSE, FALSE, FALSE, FALSE)>>,
     <<Rule("val", "float", TRUE, FALSE, FALSE, FALSE)>>,
     <<Rule("val", "date", TRUE, FALSE, FALSE, FALSE)>>,
     <<Rule("other", "none", FALSE, TRUE, FALSE, TRUE)>>,
     <<Rule("other", "none", FALSE, TRUE, FALSE, FALSE)>>,
     <<Rule("val", "none", FALSE, TRUE, FALSE, FALSE),
       Rule("other", "none", FALSE, FALSE, FALSE, TRUE)>>}

\* error_handling: a dict with the four keys (the default is one of them)
ErrorHandlings ==
    [missing_required : VALID_ERROR_ACTIONS, invalid_type : VALID_ERROR_ACTIONS,
     invalid_value : VALID_ERROR_ACTIONS, invalid_format : VALID_ERROR_ACTIONS]

SchemaValidators ==
    {[class |-> "SchemaValidator", unit |-> "SchemaValidator", rules |-> sc,
      error_handling |-> eh] : sc \in Schemas, eh \in ErrorHandlings}

PatternValidators ==
    {[class |-> "PatternValidator", unit |-> u, rules |-> <<>>,
      error_handling |-> DEFAULT_ERROR_HANDLING] : u \in Validators}

\* no PipelineStep is called on its own
InitNoStep ==
    /\ validator = [class |-> "none", unit |-> "none", rules |-> <<>>,
                    error_handling |-> DEFAULT_ERROR_HANDLING]
    /\ validate_out = NoOut
    /\ step_out = Pending

--------------------------------------------------------------------------
(* ParallelExecutor *)

\* the value or exception of a call, without what it printed
Result(r) == [status |-> r.status, data |-> r.data, exc |-> r.exc]

\* the record of one application of step i
Applied(ss, i) == [pos |-> i, unit |-> ss[i]]

\* ProcessFrom with the failure wrapped in an error that names the step
RECURSIVE ProcessFromWrapping(_, _, _)
ProcessFromWrapping(d, ss, i) ==
    IF i > Len(ss)
    THEN [status |-> "returned", data |-> d, exc |-> NoExc, printed |-> {},
          applied |-> <<>>, arg |-> d]
    ELSE LET r == StepExecute(ss[i], d)
         IN  IF r.status = "raised"
             THEN [status |-> "raised", data |-> <<>>,
                   exc |-> Exc("StepExecutionError", ss[i]), printed |-> {ss[i]},
                   applied |-> <<Applied(ss, i)>>, arg |-> d]
             ELSE LET rest == ProcessFromWrapping(r.data, ss, i + 1)
                  IN  [rest EXCEPT !.applied = <<Applied(ss, i)>> \o @,
                                   !.arg = IF InPlace(ss[i]) THEN @ ELSE d]

\* ProcessFrom with the loop going on to the next step after a failure
RECURSIVE ProcessFromContinuing(_, _, _)
ProcessFromContinuing(d, ss, i) ==
    IF i > Len(ss)
    THEN [status |-> "returned", data |-> d, exc |-> NoExc, printed |-> {},
          applied |-> <<>>, arg |-> d]
    ELSE LET r == StepExecute(ss[i], d)
         IN  IF r.status = "raised"
             THEN LET rest == ProcessFromContinuing(d, ss, i + 1)
                  IN  [status |-> "raised", data |-> <<>>, exc |-> r.exc,
                       printed |-> {ss[i]} \union rest.printed,
                       applied |-> <<Applied(ss, i)>> \o rest.applied, arg |-> d]
             ELSE LET rest == ProcessFromContinuing(r.data, ss, i + 1)
                  IN  [rest EXCEPT !.applied = <<Applied(ss, i)>> \o @,
                                   !.arg = IF InPlace(ss[i]) THEN @ ELSE d]

\* ParallelExecutor._process_partition: the loop over steps from position i,
\* on the frame object with content d.  The except clause prints step.name
\* (the unit's class name) and re-raises the exception it caught.  applied is
\* the sequence of step.execute calls made; arg is the content of the frame
\* object the loop started on once the loop has ended: a step that works in
\* place hands the same object to the next step.
RECURSIVE ProcessFrom(_, _, _)
ProcessFrom(d, ss, i) ==
    IF i > Len(ss)
    THEN [status |-> "returned", data |-> d, exc |-> NoExc, printed |-> {},
          applied |-> <<>>, arg |-> d]
    ELSE LET r == StepExecute(ss[i], d)
         IN  IF r.status = "raised"
             THEN [status |-> "raised", data |-> <<>>, exc |-> r.exc,
                   printed |-> {ss[i]},
                   applied |-> <<Applied(ss, i)>>, arg |-> d]
             ELSE LET rest == ProcessFrom(r.data, ss, i + 1)
                  IN  [rest EXCEPT !.applied = <<Applied(ss, i)>> \o @,
                                   !.arg = IF InPlace(ss[i]) THEN @ ELSE d]

\* ProcessPartition that starts the loop at the second step
ProcessPartitionSkippingFirst(d, ss) ==
    [ProcessFrom(d, ss, 2) EXCEPT !.arg = d]

\* ProcessPartition running the loop on df_partition itself
ProcessPartitionNoCopy(d, ss) == ProcessFrom(d, ss, 1)

\* ParallelExecutor._process_partition: result = df_partition.copy(), then
\* the loop on the copy; the frame passed in keeps its content
ProcessPartition(d, ss) ==
    [ProcessFrom(d, ss, 1) EXCEPT !.arg = d]

\* the entry of step_log for a run of the chain by partition task j (0: by
\* the calling process)
LogEntry(j, r) ==
    [task |-> j, applied |-> r.applied, returned |-> r.status = "returned"]

\* SectionSize without the remainder rows
SectionSizeFloor(n, k, j) == n \div k

\* SectionSize with the remainder rows all in the last sub-array
SectionSizeRemainderLast(n, k, j) == (n \div k) + (IF j = k THEN n % k ELSE 0)

\* np.array_split: sub-array j of k has n \div k rows, the first n % k one more
SectionSize(n, k, j) == (n \div k) + (IF j <= n % k THEN 1 ELSE 0)

\* np.array_split: div_points = cumsum(section_sizes)
RECURSIVE DivPoint(_, _, _)
DivPoint(n, k, j) ==
    IF j = 0 THEN 0 ELSE DivPoint(n, k, j - 1) + SectionSize(n, k, j)

\* PartitionIndices without the offset of the sub-array
PartitionIndicesFromStart(n, k, j) == [i \in 1..SectionSize(n, k, j) |-> i]

\* partition_indices[j] (1-based row positions)
PartitionIndices(n, k, j) ==
    [i \in 1..SectionSize(n, k, j) |-> DivPoint(n, k, j - 1) + i]

\* df.iloc[idx]
Iloc(d, idx) == [i \in 1..Len(idx) |-> d[idx[i]]]

\* df_partitions
DfPartitions(d, k) ==
    [j \in 1..k |-> Iloc(d, PartitionIndices(Len(d), k, j))]

\* Concat with each result put in front of the ones before it
RECURSIVE ConcatLastFirst(_)
ConcatLastFirst(rs) ==
    IF Len(rs) = 0 THEN <<>> ELSE ConcatLastFirst(Tail(rs)) \o Head(rs)

\* pd.concat(results, ignore_index=True)
RECURSIVE Concat(_)
Concat(rs) == IF Len(rs) = 0 THEN <<>> ELSE Head(rs) \o Concat(Tail(rs))

\* no task has run the step chain; task 0 is the calling process
NoRuns == [j \in 0..MaxPartitions |-> 0]

\* executor.submit(self._process_partition, partition, steps) for each partition
Submit(d, k) ==
    [j \in 1..k |-> [partition |-> DfPartitions(d, k)[j], state |-> "running",
                     outcome |-> Pending]]

\* ParallelExecutor.execute up to the point where it first blocks
ExecuteEnter(d) ==
    /\ results' = <<>>
    /\ raised' = NoExc
    /\ cursor' = 1
    /\ IF partitions <= 1
       THEN LET r == ProcessPartition(d, steps)
            IN  /\ futures' = <<>>
                /\ path' = "sequential"
                /\ exec_out' = Result(r)
                /\ printed_steps' = r.printed
                /\ step_log' = {LogEntry(0, r)}
                /\ df' = r.arg
                /\ chain_runs' = [NoRuns EXCEPT ![0] = 1]
                /\ pc' = "executed"
       ELSE /\ futures' = Submit(d, partitions)
            /\ path' = "parallel"
            /\ exec_out' = Pending
            /\ printed_steps' = {}
            /\ step_log' = {}
            /\ df' = d
            /\ chain_runs' = NoRuns
            /\ pc' = "collect"
    /\ overtaken' = FALSE
    /\ running_at_raise' = FALSE

\* A direct call of ParallelExecutor.execute(d, steps): the argument df is
\* the caller's frame object
Execute(d) ==
    /\ pc = "idle"
    /\ df_at_call' = d
    /\ ExecuteEnter(d)
    /\ caller_df' = df'
    /\ UNCHANGED <<steps, partitions, use_disk, metrics, incremental_config,
                   error_handling, run_out, collect_calls>>
    /\ UNCHANGED ctor
    /\ UNCHANGED bld
    /\ UNCHANGED vld
    /\ UNCHANGED env

\* TaskRun with the tasks working on the one shared frame: task j runs the
\* chain over df and keeps the rows of its partition
TaskRunOnSharedFrame(j) ==
    /\ j \in DOMAIN futures
    /\ futures[j].state = "running"
    /\ LET whole == ProcessPartition(df, steps)
           mine == {futures[j].partition[i].id : i \in 1..Len(futures[j].partition)}
           r == [whole EXCEPT !.data =
                    Select(@, [i \in 1..Len(@) |-> @[i].id \in mine])]
       IN  /\ futures' = [futures EXCEPT ![j].state = "finished",
                                         ![j].outcome = Result(r)]
           /\ printed_steps' = printed_steps \union r.printed
           /\ step_log' = step_log \union {LogEntry(j, r)}
    /\ chain_runs' = [chain_runs EXCEPT ![j] = @ + 1]
    /\ UNCHANGED running_at_raise
    /\ overtaken' = (overtaken \/ \E i \in 1..(j - 1) : futures[i].state = "running")
    /\ UNCHANGED <<steps, partitions, use_disk, metrics, incremental_config, pc,
                   caller_df, df, error_handling, results, cursor, raised,
                   path, exec_out, run_out, collect_calls>>
    /\ UNCHANGED ctor
    /\ UNCHANGED bld
    /\ UNCHANGED df_at_call
    /\ UNCHANGED vld
    /\ UNCHANGED env

\* A worker process runs _process_partition on its copy of partition j
TaskRun(j) ==
    /\ j \in DOMAIN futures
    /\ futures[j].state = "running"
    /\ LET r == ProcessPartition(futures[j].partition, steps)
       IN  /\ futures' = [futures EXCEPT ![j].state = "finished",
                                         ![j].outcome = Result(r)]
           /\ printed_steps' = printed_steps \union r.printed
           /\ step_log' = step_log \union {LogEntry(j, r)}
    /\ chain_runs' = [chain_runs EXCEPT ![j] = @ + 1]
    /\ UNCHANGED running_at_raise
    /\ overtaken' = (overtaken \/ \E i \in 1..(j - 1) : futures[i].state = "running")
    /\ UNCHANGED <<steps, partitions, use_disk, metrics, incremental_config, pc,
                   caller_df, df, error_handling, results, cursor, raised,
                   path, exec_out, run_out, collect_calls>>
    /\ UNCHANGED ctor
    /\ UNCHANGED bld
    /\ UNCHANGED df_at_call
    /\ UNCHANGED vld
    /\ UNCHANGED env

\* the tasks that have not terminated
Running == {j \in DOMAIN futures : futures[j].state = "running"}

\* CollectResult taking the futures as they complete instead of by position
CollectAsCompleted ==
    /\ pc = "collect"
    /\ cursor <= Len(futures)
    /\ \E j \in DOMAIN futures :
          /\ futures[j].state = "finished"
          /\ IF futures[j].outcome.status = "returned"
             THEN /\ results' = Append(results, futures[j].outcome.data)
                  /\ cursor' = cursor + 1
                  /\ futures' = [futures EXCEPT ![j].state = "collected"]
                  /\ UNCHANGED <<raised, pc, running_at_raise>>
             ELSE /\ raised' = futures[j].outcome.exc
                  /\ pc' = "shutdown"
                  /\ running_at_raise' = (Running # {})
                  /\ UNCHANGED <<results, cursor, futures>>
    /\ UNCHANGED <<steps, partitions, use_disk, metrics, incremental_config,
                   caller_df, df, error_handling, path, exec_out,
                   run_out, collect_calls, printed_steps, overtaken>>
    /\ UNCHANGED chain_runs
    /\ UNCHANGED step_log
    /\ UNCHANGED ctor
    /\ UNCHANGED bld
    /\ UNCHANGED df_at_call
    /\ UNCHANGED vld
    /\ UNCHANGED env

\* results.append(future.result()) for the future at the cursor; a failed
\* future re-raises its exception, which leaves the for loop
CollectResult ==
    /\ pc = "collect"
    /\ cursor <= Len(futures)
    /\ futures[cursor].state = "finished"
    /\ IF futures[cursor].outcome.status = "returned"
       THEN /\ results' = Append(results, futures[cursor].outcome.data)
            /\ cursor' = cursor + 1
            /\ UNCHANGED <<raised, pc, running_at_raise>>
       ELSE /\ raised' = futures[cursor].outcome.exc
            /\ pc' = "shutdown"
            /\ running_at_raise' = (Running # {})
            /\ UNCHANGED <<results, cursor>>
    /\ UNCHANGED <<steps, partitions, use_disk, metrics, incremental_config,
                   caller_df, df, error_handling, futures, path, exec_out,
                   run_out, collect_calls, printed_steps, overtaken>>
    /\ UNCHANGED chain_runs
    /\ UNCHANGED step_log
    /\ UNCHANGED ctor
    /\ UNCHANGED bld
    /\ UNCHANGED df_at_call
    /\ UNCHANGED vld
    /\ UNCHANGED env

\* ProcessPoolExecutor.shutdown(wait=True) returns: no task is still running
AllFinished == \A j \in DOMAIN futures : futures[j].state # "running"

\* the for loop ended: the with block is left and the results are combined
Combine ==
    /\ pc = "collect"
    /\ cursor > Len(futures)
    /\ AllFinished
    /\ exec_out' = Returned(Concat(results))
    /\ pc' = "executed"
    /\ UNCHANGED <<steps, partitions, use_disk, metrics, incremental_config,
                   caller_df, df, error_handling, futures, results, cursor,
                   raised, path, run_out, collect_calls, printed_steps,
                   overtaken>>
    /\ UNCHANGED hist
    /\ UNCHANGED step_log
    /\ UNCHANGED ctor
    /\ UNCHANGED bld
    /\ UNCHANGED df_at_call
    /\ UNCHANGED vld
    /\ UNCHANGED env

\* HandleFailure with the fallback run replaced by the results collected so far
HandleFailureSalvage(e) ==
    IF use_disk
    THEN /\ path' = "fallback"
         /\ exec_out' = Returned(Concat(results))
         /\ printed_steps' = printed_steps
         /\ UNCHANGED <<step_log, df, chain_runs>>
    ELSE /\ path' = path
         /\ exec_out' = Raised(e)
         /\ printed_steps' = printed_steps
         /\ UNCHANGED <<step_log, df, chain_runs>>

\* HandleFailure returning the successful partitions when use_disk is false
HandleFailureSwallow(e) ==
    IF use_disk
    THEN LET r == ProcessPartition(df, steps)
         IN  /\ path' = "fallback"
             /\ exec_out' = Result(r)
             /\ printed_steps' = printed_steps \union r.printed
             /\ step_log' = step_log \union {LogEntry(0, r)}
             /\ df' = r.arg
             /\ chain_runs' = [chain_runs EXCEPT ![0] = @ + 1]
    ELSE /\ path' = path
         /\ exec_out' = Returned(Concat(results))
         /\ printed_steps' = printed_steps
         /\ UNCHANGED <<step_log, df, chain_runs>>

\* HandleFailure without the fallback branch
HandleFailureReraise(e) ==
    /\ path' = path
    /\ exec_out' = Raised(e)
    /\ printed_steps' = printed_steps
    /\ UNCHANGED <<step_log, df, chain_runs>>

\* HandleFailure running the fallback a second time when it fails
HandleFailureRetrying(e) ==
    IF use_disk
    THEN LET r == ProcessPartition(df, steps)
             again == r.status = "raised"
         IN  /\ path' = "fallback"
             /\ exec_out' = Result(r)
             /\ printed_steps' = printed_steps \union r.printed
             /\ step_log' = step_log \union {LogEntry(0, r)}
             /\ df' = r.arg
             /\ chain_runs' = [chain_runs EXCEPT ![0] = @ + (IF again THEN 2 ELSE 1)]
    ELSE /\ path' = path
         /\ exec_out' = Raised(e)
         /\ printed_steps' = printed_steps
         /\ UNCHANGED <<step_log, df, chain_runs>>

\* what the except clause of execute does with the exception e
HandleFailure(e) ==
    IF use_disk
    THEN LET r == ProcessPartition(df, steps)
         IN  /\ path' = "fallback"
             /\ exec_out' = Result(r)
             /\ printed_steps' = printed_steps \union r.printed
             /\ step_log' = step_log \union {LogEntry(0, r)}
             /\ df' = r.arg
             /\ chain_runs' = [chain_runs EXCEPT ![0] = @ + 1]
    ELSE /\ path' = path
         /\ exec_out' = Raised(e)
         /\ printed_steps' = printed_steps
         /\ UNCHANGED <<step_log, df, chain_runs>>

\* the df of execute is the frame object the caller passed: run hands its
\* argument on unless the incremental window made a new frame of it
DfIsCallers == ~incremental_config.enabled

\* ExceptParallel with the pool shut down without waiting for its tasks
ExceptParallelNoWait ==
    /\ pc = "shutdown"
    /\ HandleFailure(raised)
    /\ UNCHANGED running_at_raise
    /\ caller_df' = IF DfIsCallers THEN df' ELSE caller_df
    /\ pc' = "executed"
    /\ UNCHANGED <<steps, partitions, use_disk, metrics, incremental_config,
                   error_handling, futures, results, cursor,
                   raised, run_out, collect_calls, overtaken>>
    /\ UNCHANGED ctor
    /\ UNCHANGED bld
    /\ UNCHANGED df_at_call
    /\ UNCHANGED vld
    /\ UNCHANGED env

---------------------------------------------------------------------

\* the exception leaves the with block (ProcessPoolExecutor.__exit__ waits for
\* every submitted task) and reaches "except Exception"
ExceptParallel ==
    /\ pc = "shutdown"
    /\ AllFinished
    /\ HandleFailure(raised)
    /\ UNCHANGED running_at_raise
    /\ caller_df' = IF DfIsCallers THEN df' ELSE caller_df
    /\ pc' = "executed"
    /\ UNCHANGED <<steps, partitions, use_disk, metrics, incremental_config,
                   error_handling, futures, results, cursor,
                   raised, run_out, collect_calls, overtaken>>
    /\ UNCHANGED ctor
    /\ UNCHANGED bld
    /\ UNCHANGED df_at_call
    /\ UNCHANGED vld
    /\ UNCHANGED env

--------------------------------------------------------------------------
(* ParallelExecutor.__init__ *)

\* A memory_limit string is a sequence of characters.  Memory sizes are in
\* KiB: every value of unit_map is a multiple of 1024 and the numbers are
\* whole, so required_memory > total_memory compares the same in KiB.

DigitChars == <<"0", "1", "2", "3", "4", "5", "6", "7", "8", "9">>

IsDigit(c) == \E i \in DOMAIN DigitChars : DigitChars[i] = c

DigitValue(c) == (CHOOSE i \in DOMAIN DigitChars : DigitChars[i] = c) - 1

\* the decimal value of a string of digits
RECURSIVE Decimal(_)
Decimal(s) ==
    IF Len(s) = 0 THEN 0
    ELSE 10 * Decimal(SubSeq(s, 1, Len(s) - 1)) + DigitValue(s[Len(s)])

\* float(s) on strings of digits and letters: a non-empty string of digits
\* converts, every other string raises ValueError
Float(s) ==
    IF Len(s) > 0 /\ \A i \in 1..Len(s) : IsDigit(s[i])
    THEN [ok |-> TRUE, value |-> Decimal(s)]
    ELSE [ok |-> FALSE, value |-> 0]

\* str.upper(), character by character
UpperChar(c) ==
    CASE c = "g" -> "G"
      [] c = "m" -> "M"
      [] c = "k" -> "K"
      [] c = "b" -> "B"
      [] OTHER -> c

Upper(s) == [i \in 1..Len(s) |-> UpperChar(s[i])]

\* limit[:-2]
AllButLastTwo(s) == IF Len(s) <= 2 THEN <<>> ELSE SubSeq(s, 1, Len(s) - 2)

\* limit[-2:]
LastTwo(s) == IF Len(s) <= 2 THEN s ELSE SubSeq(s, Len(s) - 1, Len(s))

\* unit_map, in KiB
UnitNames == {<<"G", "B">>, <<"M", "B">>, <<"K", "B">>}

UnitMap(unit) ==
    CASE unit = <<"G", "B">> -> 1024 * 1024
      [] unit = <<"M", "B">> -> 1024
      [] unit = <<"K", "B">> -> 1

NotAFloat == Exc("ValueError", "could not convert string to float")
InvalidMemoryUnit == Exc("ValueError", "Invalid memory unit")
ExceedsSystemMemory == Exc("ValueError", "Required memory exceeds system memory")

\* ParallelExecutor._parse_memory_limit
ParseMemoryLimit(lim) ==
    LET number == Float(AllButLastTwo(lim))
        unit == Upper(LastTwo(lim))
    IN  IF ~number.ok THEN Raised(NotAFloat)
        ELSE IF unit \notin UnitNames THEN Raised(InvalidMemoryUnit)
             ELSE Returned(number.value * UnitMap(unit))

\* ValidateConfig without the use_disk exemption
ValidateConfigStrict(mem, p, disk, total) ==
    IF mem * p > total
    THEN Raised(ExceedsSystemMemory)
    ELSE Returned(<<>>)

\* ParallelExecutor._validate_config
ValidateConfig(mem, p, disk, total) ==
    IF mem * p > total /\ ~disk
    THEN Raised(ExceedsSystemMemory)
    ELSE Returned(<<>>)

\* ParallelExecutor(partitions=p, memory_limit=lim, use_disk=disk).  The
\* attributes are assigned in the order of __init__; 0 and FALSE stand for an
\* attribute that has not been assigned.  When __init__ raises, the caller
\* holds no executor (pc = "failed").
NewExecutor(p, lim, disk) ==
    /\ limit' = lim
    /\ partitions' = p
    /\ LET parsed == ParseMemoryLimit(lim)
       IN  IF parsed.status = "raised"
           THEN /\ memory_limit' = 0
                /\ use_disk' = FALSE
                /\ new_out' = parsed
                /\ pc' = "failed"
           ELSE /\ memory_limit' = parsed.data
                /\ use_disk' = disk
                /\ new_out' = ValidateConfig(parsed.data, p, disk, total_memory)
                /\ pc' = IF new_out'.status = "raised" THEN "failed" ELSE "idle"

SeqsUpTo(S, n) == UNION {[1..m -> S] : m \in 0..n}

MaxLimitLen == 3

LimitChars == {"1", "9", "G", "K", "B", "b"}

LimitStrings == SeqsUpTo(LimitChars, MaxLimitLen)

\* machines with 4 GiB and with 9 GiB
TotalMemories == {4 * 1024 * 1024, 9 * 1024 * 1024}

\* a caller that holds no executor constructs one
New ==
    /\ pc = "new"
    /\ \E p \in 1..MaxPartitions, lim \in LimitStrings, disk \in BOOLEAN :
          NewExecutor(p, lim, disk)
    /\ UNCHANGED <<steps, metrics, incremental_config, caller_df, df,
                   error_handling, futures, results, cursor, raised, path,
                   exec_out, run_out, collect_calls, printed_steps, overtaken,
                   total_memory, step_log>>
    /\ UNCHANGED bld
    /\ UNCHANGED df_at_call
    /\ UNCHANGED hist
    /\ UNCHANGED vld
    /\ UNCHANGED env

\* incremental_config: None
NoWindow == [enabled |-> FALSE, lookback_days |-> 0]

\* PipelineBuilder.__init__.executor: None
NoExecutor ==
    [set |-> FALSE, partitions |-> 0, use_disk |-> FALSE, limit |-> <<>>,
     memory_limit |-> 0]

\* PipelineBuilder.__init__
NewBuilder ==
    [steps |-> <<>>, executor |-> NoExecutor, metrics |-> FALSE,
     incremental_config |-> NoWindow]

\* no Pipeline has been built
NotBuilt ==
    [done |-> FALSE, steps |-> <<>>, partitions |-> 0, use_disk |-> FALSE,
     metrics |-> FALSE, incremental_config |-> NoWindow]

\* the caller uses no builder: it makes the executor or the Pipeline itself
InitNoBuilder ==
    /\ builder = NewBuilder
    /\ calls = <<>>
    /\ built = NotBuilt

\* an executor that __init__ has returned: ParallelExecutor(k, "1KB", disk) on
\* a machine with 4 GiB
InitConstructed ==
    /\ limit = <<"1", "K", "B">>
    /\ memory_limit = 1
    /\ total_memory = 4 * 1024 * 1024
    /\ new_out = Returned(<<>>)

--------------------------------------------------------------------------
(* Inputs *)

\* datasets of at most n rows; row i has id i
Datasets(n, V, S) ==
    UNION {{[i \in 1..m |-> [id |-> i, val |-> f[i][1], ts |-> f[i][2]]] :
              f \in [1..m -> V \X S]} : m \in 0..n}

ExecDatasets == Datasets(MaxRows, Vals, {Now})

InitCall ==
    /\ pc = "idle"
    /\ caller_df = <<>>
    /\ df = <<>>
    /\ futures = <<>>
    /\ results = <<>>
    /\ cursor = 1
    /\ raised = NoExc
    /\ path = "none"
    /\ exec_out = Pending
    /\ run_out = Pending
    /\ collect_calls = <<>>
    /\ printed_steps = {}
    /\ overtaken = FALSE
    /\ step_log = {}
    /\ df_at_call = <<>>
    /\ chain_runs = NoRuns
    /\ running_at_raise = FALSE
    /\ now = Now
    /\ kept = NoRun

NoPolicy == [present |-> FALSE, num |-> 0, den |-> 1]

\* an executor and a step list, before a call of execute
InitExec ==
    /\ steps \in SeqsUpTo(StepKinds, MaxSteps)
    /\ partitions \in 1..MaxPartitions
    /\ use_disk \in BOOLEAN
    /\ metrics = FALSE
    /\ incremental_config = NoWindow
    /\ error_handling = NoPolicy
    /\ InitCall
    /\ InitConstructed
    /\ InitNoBuilder
    /\ InitNoStep

NextExec ==
    \/ \E d \in ExecDatasets : Execute(d)
    \/ \E j \in 1..MaxPartitions : TaskRun(j)
    \/ CollectResult
    \/ Combine
    \/ ExceptParallel

SpecExec == InitExec /\ [][NextExec]_vars

\* Construction of an executor, followed by calls of execute

\* no executor has been constructed
InitNew ==
    /\ steps = <<"PatternRaise">>
    /\ partitions = 0
    /\ use_disk = FALSE
    /\ limit = <<>>
    /\ memory_limit = 0
    /\ total_memory \in TotalMemories
    /\ new_out = Pending
    /\ metrics = FALSE
    /\ incremental_config = NoWindow
    /\ error_handling = NoPolicy
    /\ pc = "new"
    /\ caller_df = <<>>
    /\ df = <<>>
    /\ futures = <<>>
    /\ results = <<>>
    /\ cursor = 1
    /\ raised = NoExc
    /\ path = "none"
    /\ exec_out = Pending
    /\ run_out = Pending
    /\ collect_calls = <<>>
    /\ printed_steps = {}
    /\ overtaken = FALSE
    /\ step_log = {}
    /\ df_at_call = <<>>
    /\ chain_runs = NoRuns
    /\ running_at_raise = FALSE
    /\ now = Now
    /\ kept = NoRun
    /\ InitNoBuilder
    /\ InitNoStep

NextNew ==
    \/ New
    \/ \E d \in ExecDatasets : Execute(d)
    \/ \E j \in 1..MaxPartitions : TaskRun(j)
    \/ CollectResult
    \/ Combine
    \/ ExceptParallel

SpecNew == InitNew /\ [][NextNew]_vars

\* Calls of execute with the worker processes and the calling thread
\* scheduled fairly: a submitted task runs, and every step invocation returns
\* or raises; the calling thread goes on whenever it is not blocked

TermMaxPartitions == 3

TermDatasets == Datasets(RunMaxRows, Vals, {Now})

InitTerm ==
    /\ steps \in SeqsUpTo(StepKinds, RunMaxSteps)
    /\ partitions \in 1..TermMaxPartitions
    /\ use_disk \in BOOLEAN
    /\ metrics = FALSE
    /\ incremental_config = NoWindow
    /\ error_handling = NoPolicy
    /\ InitCall
    /\ InitConstructed
    /\ InitNoBuilder
    /\ InitNoStep

NextTerm ==
    \/ \E d \in TermDatasets : Execute(d)
    \/ \E j \in 1..TermMaxPartitions : TaskRun(j)
    \/ CollectResult
    \/ Combine
    \/ ExceptParallel

FairTerm ==
    /\ \A j \in 1..TermMaxPartitions : WF_vars(TaskRun(j))
    /\ WF_vars(CollectResult)
    /\ WF_vars(Combine)
    /\ WF_vars(ExceptParallel)

SpecTerm == InitTerm /\ [][NextTerm]_vars /\ FairTerm

\* The split of a dataset into partitions, for more rows and partitions

MaxSplitRows == 16
MaxSplitParts == 8

\* one dataset of each row count
SplitDatasets == Datasets(MaxSplitRows, {0}, {Now})

\* an executor with k > 1 partitions, before a call of execute
InitSplit ==
    /\ steps = <<>>
    /\ partitions \in 2..MaxSplitParts
    /\ use_disk = FALSE
    /\ metrics = FALSE
    /\ incremental_config = NoWindow
    /\ error_handling = NoPolicy
    /\ InitCall
    /\ InitConstructed
    /\ InitNoBuilder
    /\ InitNoStep

\* execute up to the submission of the partition tasks
NextSplit == \E d \in SplitDatasets : Execute(d)

SpecSplit == InitSplit /\ [][NextSplit]_vars

--------------------------------------------------------------------------
(* Pipeline.run *)

\* Window with the cutoff itself excluded
WindowExclusive(d, lookback_days) ==
    Select(d, [i \in 1..Len(d) |-> d[i].ts > now - lookback_days])

\* df[df[checkpoint_col] >= cutoff_date], cutoff_date = now - lookback_days
Window(d, lookback_days) ==
    Select(d, [i \in 1..Len(d) |-> d[i].ts >= now - lookback_days])

\* error_handling.get("max_error_rate") as a condition: None and 0 are false
MaxErrorRateTruthy(eh) == eh.present /\ eh.num # 0

\* error_rate > error_handling["max_error_rate"], for rows_in > 0;
\* error_rate = (rows_in - rows_out) / rows_in and the maximum is num / den
RateExceeds(rows_in, rows_out, eh) ==
    (rows_in - rows_out) * eh.den > eh.num * rows_in

\* raise ValueError(f"Error rate ... exceeds maximum allowed ...")
ErrorRateExceeded == Exc("ValueError", "Error rate exceeds maximum allowed")

\* the try body of run after execute returned result
ErrorRateGate(d, result, eh) ==
    IF ~MaxErrorRateTruthy(eh) THEN Returned(result)
    ELSE IF Len(d) = 0
         THEN Raised(DivisionByZero)
         ELSE IF RateExceeds(Len(d), Len(result), eh)
              THEN Raised(ErrorRateExceeded)
              ELSE Returned(result)

\* Pipeline.run up to the point where execute first blocks
Run(d) ==
    /\ pc = "idle"
    /\ df_at_call' = d
    /\ ExecuteEnter(IF incremental_config.enabled
                    THEN Window(d, incremental_config.lookback_days)
                    ELSE d)
    /\ caller_df' = IF DfIsCallers THEN df' ELSE d
    /\ UNCHANGED <<steps, partitions, use_disk, metrics, incremental_config,
                   error_handling, run_out, collect_calls>>
    /\ UNCHANGED ctor
    /\ UNCHANGED bld
    /\ UNCHANGED vld
    /\ UNCHANGED env

\* the outcome of the try body of run
TryBody(eh) ==
    IF exec_out.status = "raised" THEN exec_out
    ELSE ErrorRateGate(df, exec_out.data, eh)

\* reading the local variable result before any assignment to it
UnboundResult == Exc("UnboundLocalError", "result")

\* DataQualityReport.collect: "success_rate": len(output_df) / len(input_df)
Collect(input_df, output_df) ==
    IF Len(input_df) = 0 THEN Raised(DivisionByZero) ELSE Returned(<<>>)

\* the finally clause of run: metrics.collect(df, result) reads the local
\* result, which is unbound when execute raised; an exception that collect
\* raises leaves the finally clause in place of the outcome of the try body
Finally(body) ==
    IF ~metrics
    THEN /\ run_out' = body
         /\ collect_calls' = collect_calls
    ELSE IF exec_out.status = "raised"
         THEN /\ run_out' = Raised(UnboundResult)
              /\ collect_calls' = collect_calls
         ELSE /\ run_out' = IF Collect(df, exec_out.data).status = "raised"
                            THEN Collect(df, exec_out.data)
                            ELSE body
              /\ collect_calls' =
                    Append(collect_calls, [input |-> df, output |-> exec_out.data])

\* RunFinish with the run clearing the incremental window of the pipeline
RunFinishDroppingWindow(eh) ==
    /\ pc = "executed"
    /\ error_handling' = eh
    /\ Finally(TryBody(eh))
    /\ pc' = "done"
    /\ incremental_config' = NoWindow
    /\ UNCHANGED <<steps, partitions, use_disk, metrics,
                   caller_df, df, futures, results, cursor,
                   raised, path, exec_out, printed_steps, overtaken>>
    /\ UNCHANGED step_log
    /\ UNCHANGED ctor
    /\ UNCHANGED bld
    /\ UNCHANGED df_at_call
    /\ UNCHANGED hist
    /\ UNCHANGED vld
    /\ UNCHANGED env

\* Pipeline.run from the return of execute to its own return or raise.  The
\* error_handling argument is read here for the first time (builder.py line
\* 73), so this is where the model draws it.
RunFinish(eh) ==
    /\ pc = "executed"
    /\ error_handling' = eh
    /\ Finally(TryBody(eh))
    /\ pc' = "done"
    /\ UNCHANGED <<steps, partitions, use_disk, metrics, incremental_config,
                   caller_df, df, futures, results, cursor,
                   raised, path, exec_out, printed_steps, overtaken>>
    /\ UNCHANGED step_log
    /\ UNCHANGED ctor
    /\ UNCHANGED bld
    /\ UNCHANGED df_at_call
    /\ UNCHANGED hist
    /\ UNCHANGED vld
    /\ UNCHANGED env

RunDatasets == Datasets(RunMaxRows, Vals, Stamps)

\* error policies: no max_error_rate, 0, 1/4 and 1/2
Policies ==
    {NoPolicy} \union
    {[present |-> TRUE, num |-> r[1], den |-> r[2]] : r \in {<<0, 1>>, <<1, 4>>, <<1, 2>>}}

\* the executors of the pipelines: the default ParallelExecutor() and a
\* two-partition executor without and with use_disk
RunExecutors == {<<1, FALSE>>, <<2, FALSE>>, <<2, TRUE>>}

Windows ==
    {NoWindow} \union
    {[enabled |-> TRUE, lookback_days |-> n] : n \in 1..MaxLookback}

\* a built Pipeline, before a call of run
Init ==
    /\ steps \in SeqsUpTo(StepKinds, RunMaxSteps)
    /\ \E e \in RunExecutors : partitions = e[1] /\ use_disk = e[2]
    /\ metrics \in BOOLEAN
    /\ incremental_config \in Windows
    /\ error_handling = NoPolicy
    /\ InitCall
    /\ InitConstructed
    /\ InitNoBuilder
    /\ InitNoStep

Next ==
    \/ \E d \in RunDatasets : Run(d)
    \/ \E j \in 1..MaxPartitions : TaskRun(j)
    \/ CollectResult
    \/ Combine
    \/ ExceptParallel
    \/ \E eh \in Policies : RunFinish(eh)

Spec == Init /\ [][Next]_vars

--------------------------------------------------------------------------
(* A Pipeline run again and again *)

ReuseMaxRows == 2
MaxNow == 3

\* datasets whose rows are one day apart, the newest first: the first row is
\* of the day of the first run, the second on the cutoff that a window of one
\* day has at the first run
ReuseDatasets ==
    {d \in Datasets(ReuseMaxRows, Vals, Stamps) :
        \A i \in 1..Len(d) : d[i].ts = Now + 1 - i}

\* the pipelines that are run again: no step or one step, the default
\* executor or two partitions with use_disk, without and with a window of one
\* day
ReuseSteps == SeqsUpTo(StepKinds, 1)
ReuseExecutors == {<<1, FALSE>>, <<2, TRUE>>}
ReuseWindows == {NoWindow, [enabled |-> TRUE, lookback_days |-> 1]}

\* error policies with a max_error_rate of 1/2 and of 1
ReusePolicies ==
    {[present |-> TRUE, num |-> r[1], den |-> r[2]] : r \in {<<1, 2>>, <<1, 1>>}}

\* time passes between two calls of run
Tick ==
    /\ pc = "idle"
    /\ now < MaxNow
    /\ now' = now + 1
    /\ UNCHANGED <<steps, partitions, use_disk, metrics, incremental_config, pc,
                   caller_df, df, error_handling, futures, results, cursor,
                   raised, path, exec_out, run_out, collect_calls,
                   printed_steps, overtaken, step_log, df_at_call, kept>>
    /\ UNCHANGED ctor
    /\ UNCHANGED bld
    /\ UNCHANGED vld
    /\ UNCHANGED hist

\* the run as the history keeps it
ThisRun ==
    [valid |-> TRUE, input |-> df_at_call, windowed |-> df,
     error_handling |-> error_handling, out |-> run_out]

\* run has returned or raised and the caller goes on: the locals of the call
\* are gone, the Pipeline object stays.  The history keeps this run or the
\* one it kept before.
Return ==
    /\ pc = "done"
    /\ pc' = "idle"
    /\ \E keep \in BOOLEAN : kept' = IF keep THEN ThisRun ELSE kept
    /\ caller_df' = <<>>
    /\ df' = <<>>
    /\ df_at_call' = <<>>
    /\ error_handling' = NoPolicy
    /\ futures' = <<>>
    /\ results' = <<>>
    /\ cursor' = 1
    /\ raised' = NoExc
    /\ path' = "none"
    /\ exec_out' = Pending
    /\ run_out' = Pending
    /\ collect_calls' = <<>>
    /\ printed_steps' = {}
    /\ overtaken' = FALSE
    /\ step_log' = {}
    /\ chain_runs' = NoRuns
    /\ running_at_raise' = FALSE
    /\ UNCHANGED <<steps, partitions, use_disk, metrics, incremental_config, now>>
    /\ UNCHANGED ctor
    /\ UNCHANGED bld
    /\ UNCHANGED vld

\* a Pipeline as its constructor left it, before the first call of run
InitReuse ==
    /\ steps \in ReuseSteps
    /\ \E e \in ReuseExecutors : partitions = e[1] /\ use_disk = e[2]
    /\ metrics \in BOOLEAN
    /\ incremental_config \in ReuseWindows
    /\ error_handling = NoPolicy
    /\ InitCall
    /\ InitConstructed
    /\ InitNoStep
    /\ builder = NewBuilder
    /\ calls = <<>>
    /\ built = [done |-> TRUE, steps |-> steps, partitions |-> partitions,
                use_disk |-> use_disk, metrics |-> metrics,
                incremental_config |-> incremental_config]

NextReuse ==
    \/ \E d \in ReuseDatasets : Run(d)
    \/ \E j \in 1..MaxPartitions : TaskRun(j)
    \/ CollectResult
    \/ Combine
    \/ ExceptParallel
    \/ \E eh \in ReusePolicies : RunFinish(eh)
    \/ Tick
    \/ Return

SpecReuse == InitReuse /\ [][NextReuse]_vars

--------------------------------------------------------------------------
(* PipelineBuilder *)

BuildMaxSteps == 2

\* the units the caller adds
BuildUnits == {"ColumnSanitizer", "PatternRaise"}

\* the executor the caller passes to set_executor:
\* ParallelExecutor(2, "1KB", use_disk=True)
BuildExecutors ==
    {[set |-> TRUE, partitions |-> 2, use_disk |-> TRUE,
      limit |-> <<"1", "K", "B">>, memory_limit |-> 1]}

\* the caller is not inside Pipeline.run; the run is its last call
CallerFree == pc \in {"building", "idle"}

\* PipelineBuilder.add_step: self.steps.append(PipelineStep(processor)).  The
\* list object is the one build() handed to the Pipeline, so the append shows
\* in Pipeline.steps of a pipeline that has been built.
AddStep(unit) ==
    /\ CallerFree
    /\ Len(builder.steps) < BuildMaxSteps
    /\ builder' = [builder EXCEPT !.steps = Append(@, unit)]
    /\ calls' = Append(calls, unit)
    /\ steps' = IF built.done THEN builder'.steps ELSE steps
    /\ UNCHANGED <<partitions, use_disk, metrics, incremental_config, pc,
                   caller_df, df, error_handling, futures, results, cursor,
                   raised, path, exec_out, run_out, collect_calls,
                   printed_steps, overtaken, step_log, built>>
    /\ UNCHANGED ctor
    /\ UNCHANGED df_at_call
    /\ UNCHANGED hist
    /\ UNCHANGED vld
    /\ UNCHANGED env

\* PipelineBuilder.set_executor
SetExecutor(e) ==
    /\ CallerFree
    /\ builder' = [builder EXCEPT !.executor = e]
    /\ UNCHANGED <<steps, partitions, use_disk, metrics, incremental_config, pc,
                   caller_df, df, error_handling, futures, results, cursor,
                   raised, path, exec_out, run_out, collect_calls,
                   printed_steps, overtaken, step_log, calls, built>>
    /\ UNCHANGED ctor
    /\ UNCHANGED df_at_call
    /\ UNCHANGED hist
    /\ UNCHANGED vld
    /\ UNCHANGED env

\* PipelineBuilder.enable_incremental: self.incremental_config = {...}
EnableIncremental(n) ==
    /\ CallerFree
    /\ builder' = [builder EXCEPT
                     !.incremental_config = [enabled |-> TRUE, lookback_days |-> n]]
    /\ UNCHANGED <<steps, partitions, use_disk, metrics, incremental_config, pc,
                   caller_df, df, error_handling, futures, results, cursor,
                   raised, path, exec_out, run_out, collect_calls,
                   printed_steps, overtaken, step_log, calls, built>>
    /\ UNCHANGED ctor
    /\ UNCHANGED df_at_call
    /\ UNCHANGED hist
    /\ UNCHANGED vld
    /\ UNCHANGED env

\* PipelineBuilder.set_metrics
SetMetrics ==
    /\ CallerFree
    /\ builder' = [builder EXCEPT !.metrics = TRUE]
    /\ UNCHANGED <<steps, partitions, use_disk, metrics, incremental_config, pc,
                   caller_df, df, error_handling, futures, results, cursor,
                   raised, path, exec_out, run_out, collect_calls,
                   printed_steps, overtaken, step_log, calls, built>>
    /\ UNCHANGED ctor
    /\ UNCHANGED df_at_call
    /\ UNCHANGED hist
    /\ UNCHANGED vld
    /\ UNCHANGED env

\* Pipeline.__init__: self.executor = executor or ParallelExecutor()
PipelineExecutor(e) ==
    IF e.set
    THEN /\ partitions' = e.partitions
         /\ use_disk' = e.use_disk
         /\ limit' = e.limit
         /\ memory_limit' = e.memory_limit
         /\ new_out' = Returned(<<>>)
         /\ pc' = "idle"
    ELSE NewExecutor(1, <<"4", "G", "B">>, FALSE)

\* PipelineBuilder.build and Pipeline.__init__: the Pipeline takes the
\* builder's list object as its steps.  The model follows the first pipeline
\* the caller builds.
Build ==
    /\ pc = "building"
    /\ steps' = builder.steps
    /\ PipelineExecutor(builder.executor)
    /\ metrics' = builder.metrics
    /\ incremental_config' = builder.incremental_config
    /\ built' = IF pc' = "idle"
                THEN [done |-> TRUE, steps |-> steps', partitions |-> partitions',
                      use_disk |-> use_disk', metrics |-> metrics',
                      incremental_config |-> incremental_config']
                ELSE NotBuilt
    /\ UNCHANGED <<caller_df, df, error_handling, futures, results, cursor,
                   raised, path, exec_out, run_out, collect_calls,
                   printed_steps, overtaken, step_log, total_memory, builder,
                   calls>>
    /\ UNCHANGED df_at_call
    /\ UNCHANGED hist
    /\ UNCHANGED vld
    /\ UNCHANGED env

\* a new PipelineBuilder and no Pipeline, on a machine with 4 GiB
InitBuild ==
    /\ builder = NewBuilder
    /\ calls = <<>>
    /\ built = NotBuilt
    /\ steps = <<>>
    /\ partitions = 0
    /\ use_disk = FALSE
    /\ limit = <<>>
    /\ memory_limit = 0
    /\ total_memory = 4 * 1024 * 1024
    /\ new_out = Pending
    /\ metrics = FALSE
    /\ incremental_config = NoWindow
    /\ error_handling = NoPolicy
    /\ pc = "building"
    /\ caller_df = <<>>
    /\ df = <<>>
    /\ futures = <<>>
    /\ results = <<>>
    /\ cursor = 1
    /\ raised = NoExc
    /\ path = "none"
    /\ exec_out = Pending
    /\ run_out = Pending
    /\ collect_calls = <<>>
    /\ printed_steps = {}
    /\ overtaken = FALSE
    /\ step_log = {}
    /\ df_at_call = <<>>
    /\ chain_runs = NoRuns
    /\ running_at_raise = FALSE
    /\ now = Now
    /\ kept = NoRun
    /\ InitNoStep

BuildDatasets == Datasets(RunMaxRows, Vals, {Now})

NextBuild ==
    \/ \E unit \in BuildUnits : AddStep(unit)
    \/ \E e \in BuildExecutors : SetExecutor(e)
    \/ \E n \in 1..MaxLookback : EnableIncremental(n)
    \/ SetMetrics
    \/ Build
    \/ \E d \in BuildDatasets : Run(d)
    \/ \E j \in 1..MaxPartitions : TaskRun(j)
    \/ CollectResult
    \/ Combine
    \/ ExceptParallel
    \/ \E eh \in Policies : RunFinish(eh)

SpecBuild == InitBuild /\ [][NextBuild]_vars

--------------------------------------------------------------------------
(* PipelineStep.execute on a validator, called on its own *)

\* PipelineStep(validator).execute(d)
StepCall ==
    /\ pc = "idle"
    /\ \E d \in ExecDatasets :
          /\ df' = d
          /\ df_at_call' = d
          /\ caller_df' = d
          /\ validate_out' = ValidateUnit(validator, d)
          /\ step_out' = StepExecuteValidator(validator, d)
    /\ pc' = "done"
    /\ UNCHANGED <<steps, partitions, use_disk, metrics, incremental_config,
                   error_handling, futures, results, cursor, raised, path,
                   exec_out, run_out, collect_calls, printed_steps, overtaken,
                   step_log, validator>>
    /\ UNCHANGED ctor
    /\ UNCHANGED env
    /\ UNCHANGED hist
    /\ UNCHANGED bld

\* a PipelineStep that wraps a validator, before a call of execute
InitValidate ==
    /\ validator \in SchemaValidators \union PatternValidators
    /\ validate_out = NoOut
    /\ step_out = Pending
    /\ steps = <<>>
    /\ partitions = 1
    /\ use_disk = FALSE
    /\ metrics = FALSE
    /\ incremental_config = NoWindow
    /\ error_handling = NoPolicy
    /\ InitCall
    /\ InitConstructed
    /\ InitNoBuilder

NextValidate == StepCall

SpecValidate == InitValidate /\ [][NextValidate]_vars

--------------------------------------------------------------------------
(* Properties of ParallelExecutor.execute, checked under SpecExec *)

Executed == pc = "executed"

FailedFutures == {j \in DOMAIN futures : futures[j].outcome.status = "raised"}

Min(S) == CHOOSE x \in S : \A y \in S : x <= y

\* every contiguous slice of d, the empty one included
Slices(d) == {SubSeq(d, a, b) : a \in 1..(Len(d) + 1), b \in 0..Len(d)}

\* every step returns unchanged every slice of d it can be given
IdentitySteps(d) ==
    \A i \in 1..Len(steps) : \A part \in Slices(d) :
        StepExecute(steps[i], part) = Returned(part)

\* C1: with k > 1 partitions and steps that return their input unchanged,
\* execute returns exactly the rows of D, in D's order, also when D has fewer
\* rows than k.
C1_PartitionOrderPreserved ==
    (Executed /\ partitions > 1 /\ IdentitySteps(caller_df))
        => exec_out = Returned(caller_df)

C1_Witness ==
    /\ Executed
    /\ path = "parallel"
    /\ Len(steps) > 0
    /\ IdentitySteps(caller_df)
    /\ Len(caller_df) > 1
    /\ Len(caller_df) < partitions
    /\ exec_out = Returned(caller_df)

\* the number of output rows of the partitions before partition j
RECURSIVE RowsBefore(_)
RowsBefore(j) ==
    IF j = 1 THEN 0 ELSE RowsBefore(j - 1) + Len(futures[j - 1].outcome.data)

\* C2: when every partition task succeeded, the rows returned by execute are
\* the partition outputs laid out by partition index, whatever the order in
\* which the tasks completed: the output of partition j starts right after
\* the outputs of partitions 1..j-1.
C2_ConcatByPartitionIndex ==
    (Executed /\ path = "parallel" /\ exec_out.status = "returned")
        => /\ FailedFutures = {}
           /\ Len(exec_out.data) = RowsBefore(Len(futures) + 1)
           /\ \A j \in DOMAIN futures :
                SubSeq(exec_out.data, RowsBefore(j) + 1, RowsBefore(j + 1))
                    = futures[j].outcome.data

C2_Witness ==
    /\ Executed
    /\ path = "parallel"
    /\ exec_out.status = "returned"
    /\ overtaken
    /\ Cardinality({j \in DOMAIN futures : Len(futures[j].outcome.data) > 0}) > 1

\* exactly one partition task failed, on rows that do not match the pattern
RowFailureInOnePartition ==
    /\ Executed
    /\ partitions = 4
    /\ use_disk
    /\ Cardinality(FailedFutures) = 1
    /\ \A j \in FailedFutures : futures[j].outcome.exc = PatternValidationFailed

\* C5 as stated: with 4 partitions and use_disk, a step failing on rows of
\* exactly one partition still lets execute return a complete ordered result.
C5_FallbackReturnsResult ==
    RowFailureInOnePartition
        => /\ exec_out.status = "returned"
           /\ \A p, q \in 1..Len(exec_out.data) :
                p < q => exec_out.data[p].id < exec_out.data[q].id

\* C5, amended: in that situation execute takes the single-threaded fallback
\* and its outcome is the fallback's: the step, whose failure is decided by
\* those rows, meets them again in the whole dataset and fails again, so
\* execute raises that failure instead of returning a result.
C5_FallbackRaisesAgain ==
    RowFailureInOnePartition
        => /\ path = "fallback"
           /\ exec_out = Raised(PatternValidationFailed)

C5_Witness ==
    /\ RowFailureInOnePartition
    /\ \E j \in DOMAIN futures :
         futures[j].outcome.status = "returned" /\ Len(futures[j].outcome.data) > 0
    /\ exec_out.status = "raised"

\* C6: with partitions > 1 and use_disk, once a partition task has failed the
\* outcome of execute is the outcome of one sequential run of the step chain
\* over the whole original dataset; the partition results are not used.
C6_FallbackIsSequentialRun ==
    (Executed /\ partitions > 1 /\ use_disk /\ FailedFutures # {})
        => /\ path = "fallback"
           /\ exec_out = Result(ProcessPartition(caller_df, steps))

C6_Witness ==
    /\ Executed
    /\ path = "fallback"
    /\ FailedFutures # {}
    /\ exec_out.status = "returned"
    /\ Len(results) > 0
    /\ exec_out.data # Concat(results)
    /\ Len(exec_out.data) = Len(Concat(results))

\* C7: with partitions > 1 and use_disk false, once a partition task has
\* failed execute raises (the failure of the first failed partition in
\* partition order) and returns no dataset, whatever the other tasks returned.
C7_FailureRaisedWithoutFallback ==
    (Executed /\ partitions > 1 /\ ~use_disk /\ FailedFutures # {})
        => /\ path = "parallel"
           /\ exec_out = Raised(futures[Min(FailedFutures)].outcome.exc)

C7_Witness ==
    /\ Executed
    /\ ~use_disk
    /\ Cardinality(FailedFutures) = 1
    /\ \E j \in DOMAIN futures :
         futures[j].outcome.status = "returned" /\ Len(futures[j].outcome.data) > 0
    /\ Len(results) > 0
    /\ exec_out.status = "raised"

\* C9 as stated: a unit's failure leaves the executor as a StepExecutionError
\* that carries the failing step's name.
C9_WrappedInStepExecutionError ==
    (Executed /\ exec_out.status = "raised")
        => /\ exec_out.exc.type = "StepExecutionError"
           /\ exec_out.exc.msg \in printed_steps

\* the exception a unit raises
UnitFailure(unit) ==
    IF unit = "PatternRaise" THEN PatternValidationFailed ELSE DivisionByZero

\* C9, amended: a unit's failure leaves the executor as the unit's own
\* exception, re-raised as it was caught; the name of the failing step is
\* printed and is not part of what is raised.
C9_OriginalFailureReraised ==
    (Executed /\ exec_out.status = "raised")
        => /\ \E unit \in printed_steps : exec_out.exc = UnitFailure(unit)
           /\ exec_out.exc.msg \notin StepKinds

C9_Witness ==
    /\ Executed
    /\ path = "parallel"
    /\ exec_out.status = "raised"
    /\ FailedFutures # {}

--------------------------------------------------------------------------
(* Properties of Pipeline.run, checked under Spec *)

Done == pc = "done"

\* C3: with a metrics sink configured, every run calls collect exactly once.
C3_CollectExactlyOnce ==
    (Done /\ metrics) => Len(collect_calls) = 1

\* error_rate > max_error_rate, on the run's row counts
Exceeded ==
    (Len(df) - Len(exec_out.data)) * error_handling.den
        > error_handling.num * Len(df)

\* C4: when max_error_rate is set and execute returned for rows_in > 0, run
\* fails exactly when the error rate is strictly greater than the maximum,
\* and otherwise returns the executor's output.
C4_ErrorRateGate ==
    (Done /\ error_handling.present /\ exec_out.status = "returned" /\ Len(df) > 0)
        => IF Exceeded
           THEN run_out.status = "raised" /\ run_out.data = <<>>
           ELSE run_out = Returned(exec_out.data)

\* C8: a step failure that execute raised is what run raises, with or
\* without a metrics sink, and a configured sink has collected by then.
C8_StepFailureReachesCaller ==
    (Done /\ exec_out.status = "raised")
        => /\ run_out = Raised(exec_out.exc)
           /\ metrics => Len(collect_calls) = 1

InWindow(r) == r.ts >= now - incremental_config.lookback_days

\* C10: with an incremental window, the executor is given exactly the rows of
\* the input whose checkpoint value is >= now - lookback_days, in input order;
\* no partition and no output holds another row; the error rate is computed
\* on the windowed row count.
C10_IncrementalWindow ==
    (pc # "idle" /\ incremental_config.enabled)
        => /\ \A i \in 1..Len(caller_df) :
                InWindow(caller_df[i]) <=> \E p \in 1..Len(df) : df[p] = caller_df[i]
           /\ \A p \in 1..Len(df) : \E i \in 1..Len(caller_df) : df[p] = caller_df[i]
           /\ \A p, q \in 1..Len(df) : p < q => df[p].id < df[q].id
           /\ \A j \in DOMAIN futures : \A i \in 1..Len(futures[j].partition) :
                InWindow(futures[j].partition[i])
           /\ \A i \in 1..Len(exec_out.data) :
                \E p \in 1..Len(df) : df[p].id = exec_out.data[i].id
           /\ (Done /\ MaxErrorRateTruthy(error_handling)
                    /\ exec_out.status = "returned" /\ Len(df) > 0)
                => (run_out.status = "raised" <=> Exceeded)

C10_Witness ==
    /\ Done
    /\ incremental_config.enabled
    /\ Len(df) < Len(caller_df)
    /\ \E p \in 1..Len(df) : df[p].ts = now - incremental_config.lookback_days
    /\ MaxErrorRateTruthy(error_handling)
    /\ run_out.status = "returned"
    /\ (Len(caller_df) - Len(exec_out.data)) * error_handling.den
           > error_handling.num * Len(caller_df)

\* C11: when max_error_rate is present in the policy and is 0, a run whose
\* output has fewer rows than its windowed input fails with the error-rate
\* error.
C11_GateAtZero ==
    (Done /\ error_handling.present /\ error_handling.num = 0
          /\ exec_out.status = "returned" /\ Len(exec_out.data) < Len(df))
        => run_out = Raised(ErrorRateExceeded)

--------------------------------------------------------------------------
(* Properties of ParallelExecutor(), checked under SpecNew *)

Constructing == pc # "new"

\* memory_limit_bytes * partitions exceeds the system memory
ExceedsMemory == memory_limit * partitions > total_memory

\* C12 as stated: construction fails if and only if memory_limit * partitions
\* exceeds the system memory and use_disk is false; no execute call follows a
\* failed construction.
C12_FailsIffExceedsMemory ==
    Constructing
        => /\ new_out.status = "raised" <=> (ExceedsMemory /\ ~use_disk)
           /\ new_out.status = "raised" => (exec_out = Pending /\ futures = <<>>)

\* the memory_limit string is a whole number followed by GB, MB or KB, in
\* either case
WellFormed(lim) ==
    /\ Len(lim) > 2
    /\ \A i \in 1..(Len(lim) - 2) : IsDigit(lim[i])
    /\ UpperChar(lim[Len(lim) - 1]) \in {"G", "M", "K"}
    /\ UpperChar(lim[Len(lim)]) = "B"

\* C12, amended: construction fails if and only if the memory_limit string is
\* not a number followed by one of the units GB, MB, KB, or its size times
\* partitions exceeds the system memory while use_disk is false; with a
\* well-formed limit and use_disk true it succeeds for every limit and
\* partition count; no execute call follows a failed construction.
C12_FailsIffMalformedOrExceeds ==
    Constructing
        => /\ new_out.status = "raised"
                <=> (~WellFormed(limit) \/ (ExceedsMemory /\ ~use_disk))
           /\ new_out.status = "raised" => (exec_out = Pending /\ futures = <<>>)

C12_Witness ==
    /\ pc = "failed"
    /\ WellFormed(limit)
    /\ new_out = Raised(ExceedsSystemMemory)
    /\ partitions > 1
    /\ memory_limit * (partitions - 1) <= total_memory

--------------------------------------------------------------------------
(* Properties of PipelineStep.execute, checked under SpecExec on the         *)
(* sequential path with a single step                                        *)

\* execute ran the chain <<unit>> on the caller's dataset in one sequential
\* pass, and the unit is a validator
SingleFilterStep ==
    /\ Executed
    /\ path = "sequential"
    /\ Len(steps) = 1
    /\ ~IsProcessor(steps[1])

\* C13: when the validator of a filter step returns the mask m over the n
\* input rows, the step returns exactly the input rows whose mask entry is
\* true, in input order: sum(m) rows, at most n, none that is not an input
\* row.
C13_FilterSelectsMaskedRows ==
    (SingleFilterStep /\ Validate(steps[1], caller_df).status = "returned")
        => LET m == Validate(steps[1], caller_df).mask
               out == exec_out.data
           IN  /\ exec_out.status = "returned"
               /\ Len(out) = Cardinality({i \in 1..Len(m) : m[i]})
               /\ Len(out) <= Len(caller_df)
               /\ \A p \in 1..Len(out) :
                    /\ out[p].id \in 1..Len(caller_df)
                    /\ out[p] = caller_df[out[p].id]
                    /\ m[out[p].id]
               /\ \A p, q \in 1..Len(out) : p < q => out[p].id < out[q].id

C13_Witness ==
    /\ SingleFilterStep
    /\ Len(caller_df) = 3
    /\ Validate(steps[1], caller_df).mask = <<TRUE, FALSE, TRUE>>
    /\ Len(exec_out.data) = 2

\* execute ran the chain <<unit, unit>>, the same validator twice, on the
\* caller's dataset in one sequential pass
SameFilterTwice ==
    /\ Executed
    /\ path = "sequential"
    /\ Len(steps) = 2
    /\ steps[1] = steps[2]
    /\ ~IsProcessor(steps[1])

\* C14: applying the same filter step twice gives what applying it once
\* gives (the same rows, or the same failure), and on the rows it returned
\* the validator's mask is all-true.
C14_FilterIdempotent ==
    SameFilterTwice
        => /\ exec_out = StepExecute(steps[1], caller_df)
           /\ exec_out.status = "returned"
                => /\ Validate(steps[1], exec_out.data).status = "returned"
                   /\ MaskAll(Validate(steps[1], exec_out.data).mask)
                   /\ Len(Validate(steps[1], exec_out.data).mask) = Len(exec_out.data)

C14_Witness ==
    /\ SameFilterTwice
    /\ exec_out.status = "returned"
    /\ Len(exec_out.data) > 0
    /\ Len(exec_out.data) < Len(caller_df)
    /\ caller_df[Len(caller_df)].val # 0

--------------------------------------------------------------------------
(* More properties of Pipeline.run, checked under Spec *)

\* every step of the pipeline wraps a BaseProcessor
TransformsOnly == \A i \in 1..Len(steps) : IsProcessor(steps[i])

\* C15: when every step is a transform step and the executor returned, the
\* output has as many rows as the windowed input and run returns it under
\* every error policy: the error-rate check never makes the run fail.
C15_TransformsKeepRows ==
    (Done /\ TransformsOnly /\ exec_out.status = "returned")
        => /\ Len(exec_out.data) = Len(df)
           /\ run_out = Returned(exec_out.data)

--------------------------------------------------------------------------
(* Properties of PipelineBuilder and the Pipeline it builds, checked under   *)
(* SpecBuild                                                                 *)

\* the run of the chain recorded in entry e applied the steps of ss from the
\* first on, one position after the other, each once; a run that returned
\* applied every position
InListOrder(e, ss) ==
    /\ Len(e.applied) <= Len(ss)
    /\ \A i \in 1..Len(e.applied) : e.applied[i] = [pos |-> i, unit |-> ss[i]]
    /\ e.returned => Len(e.applied) = Len(ss)
    /\ (~e.returned) => Len(e.applied) > 0

\* C16: the step list of a built Pipeline is the sequence of the add_step
\* calls made on the builder, in call order; every run of the chain (the
\* sequential pass, each partition task, the fallback pass) applies the steps
\* of that list from the first on in list order, without skipping or
\* repeating a position.
C16_StepsInCallOrder ==
    built.done
        => /\ steps = calls
           /\ \A e \in step_log : InListOrder(e, steps)

C16_Witness ==
    /\ Done
    /\ built.done
    /\ Len(calls) = 2
    /\ calls[1] # calls[2]
    /\ path = "fallback"
    /\ \E e \in step_log : e.task > 0 /\ e.returned
    /\ \E e \in step_log : e.task > 0 /\ ~e.returned /\ Len(e.applied) = 2
    /\ \E e \in step_log : e.task = 0

\* C17: builder calls made after build() leave the built pipeline's step
\* list, executor, incremental-window spec and metrics sink as build()
\* returned them.
C17_BuiltPipelineUnchanged ==
    built.done
        => /\ steps = built.steps
           /\ partitions = built.partitions
           /\ use_disk = built.use_disk
           /\ incremental_config = built.incremental_config
           /\ metrics = built.metrics

--------------------------------------------------------------------------
(* More properties of ParallelExecutor.execute, checked under SpecExec *)

\* the rows of partition i of k of the dataset d
PartitionOf(d, k, i) == Iloc(d, PartitionIndices(Len(d), k, i))

\* C18: partition task i works on the rows of partition i only: its
\* partition is the slice of the dataset that Submit gave it, and the result
\* (rows or failure) it has left when execute is over is the result of the
\* step chain on those rows, the same for every dataset that has these rows
\* in partition i, whatever rows it has in the other partitions.
C18_TaskSeesOwnPartitionOnly ==
    \A i \in DOMAIN futures :
        /\ futures[i].partition = PartitionOf(df, partitions, i)
        /\ Executed /\ futures[i].state # "running"
             => \A d2 \in ExecDatasets :
                   (Len(d2) = Len(df)
                      /\ PartitionOf(d2, partitions, i) = futures[i].partition)
                   => futures[i].outcome
                        = Result(ProcessPartition(PartitionOf(d2, partitions, i), steps))

C18_Witness ==
    /\ Executed
    /\ partitions > 1
    /\ Len(steps) > 0
    /\ \A k \in 1..Len(steps) : ~InPlace(steps[k])
    /\ \E i, j \in DOMAIN futures :
         /\ futures[i].outcome.status = "returned"
         /\ Len(futures[i].outcome.data) > 0
         /\ futures[j].outcome.status = "raised"
         /\ \E d2 \in ExecDatasets :
              /\ Len(d2) = Len(df)
              /\ PartitionOf(d2, partitions, i) = futures[i].partition
              /\ PartitionOf(d2, partitions, j) # futures[j].partition

--------------------------------------------------------------------------
(* Frame properties of Pipeline.run, checked under Spec *)

\* C19: from the call of run on, on every path, the caller's dataset has the
\* rows and values it had when the call was made, and so has the frame that
\* run handed to the executor (the caller's, or the new frame of the
\* incremental window): the step chain writes into frames of its own.
C19_CallerDatasetUntouched ==
    pc # "idle"
        => /\ caller_df = df_at_call
           /\ df = IF incremental_config.enabled
                   THEN Window(df_at_call, incremental_config.lookback_days)
                   ELSE df_at_call

C19_Witness ==
    /\ Done
    /\ \E k \in 1..Len(steps) : InPlace(steps[k])
    /\ ~incremental_config.enabled
    /\ path = "sequential"
    /\ exec_out.status = "returned"
    /\ Len(exec_out.data) = Len(caller_df)
    /\ exec_out.data # caller_df

--------------------------------------------------------------------------
(* Properties of the validators, checked under SpecValidate *)

\* C20: validate either fails or returns a boolean mask with one entry per
\* input row, for SchemaValidator under every error_handling configuration
\* and for PatternValidator.
C20_ValidateGivesMaskOrFails ==
    Done
        => \/ validate_out.status = "raised"
           \/ validate_out.ismask /\ Len(validate_out.mask) = Len(df)

--------------------------------------------------------------------------
(* Blocking and termination of ParallelExecutor.execute, checked under       *)
(* SpecExec                                                                  *)

\* C21: while a partition task is still running, the sequential fallback has
\* not been run, execute has neither returned nor raised, and nothing has
\* been combined: the choice between recombination and fallback is made
\* after every partition task has terminated.
C21_DecidesAfterAllTasksEnd ==
    (chain_runs[0] > 0 \/ exec_out # Pending \/ Executed) => Running = {}

C21_Witness ==
    /\ Executed
    /\ running_at_raise
    /\ path = "fallback"
    /\ chain_runs[0] = 1
    /\ exec_out.status = "returned"
    /\ \E j \in DOMAIN futures : futures[j].outcome.status = "returned"

--------------------------------------------------------------------------
(* Properties of the split into partitions, checked under SpecSplit *)

\* the tasks have been submitted
Submitted == pc = "collect"

\* the positions in the caller's dataset of the rows of partition j
PartitionRows(j) ==
    {futures[j].partition[i].id : i \in 1..Len(futures[j].partition)}

\* C22: for n >= 0 rows and k > 1 partitions, execute builds k partitions;
\* each is a contiguous range of row positions, no two share a row, and the
\* partitions laid end to end in partition order are the rows of the dataset
\* in order: every input row is in exactly one partition.
C22_PartitionsTileTheRows ==
    Submitted
        => /\ Len(futures) = partitions
           /\ \A j \in DOMAIN futures :
                \A i \in 1..(Len(futures[j].partition) - 1) :
                    futures[j].partition[i + 1].id = futures[j].partition[i].id + 1
           /\ \A i, j \in DOMAIN futures :
                i # j => PartitionRows(i) \cap PartitionRows(j) = {}
           /\ Concat([j \in DOMAIN futures |-> futures[j].partition]) = df_at_call
           /\ \A r \in 1..Len(df_at_call) :
                /\ df_at_call[r].id = r
                /\ Cardinality({j \in DOMAIN futures : r \in PartitionRows(j)}) = 1

C22_Witness ==
    /\ Submitted
    /\ partitions = 3
    /\ Len(df_at_call) = 8
    /\ PartitionRows(1) = {1, 2, 3}
    /\ PartitionRows(2) = {4, 5, 6}
    /\ PartitionRows(3) = {7, 8}

\* C23 as stated: each of the first k-1 partitions has floor(n/k) rows and
\* the last has the rest, n - (k-1)*floor(n/k) rows.
C23_LastAbsorbsRemainder ==
    Submitted
        => LET n == Len(df_at_call)
               k == partitions
           IN  /\ \A j \in 1..(k - 1) : Len(futures[j].partition) = n \div k
               /\ Len(futures[k].partition) = n - (k - 1) * (n \div k)

\* C23, amended: the remainder is spread, one row each, over the first
\* n mod k partitions: these have floor(n/k) + 1 rows and the others, the
\* last included when n mod k > 0, have floor(n/k) rows; the sizes add up to n.
C23_RemainderSpreadOverFirst ==
    Submitted
        => LET n == Len(df_at_call)
               k == partitions
           IN  /\ \A j \in 1..k :
                    Len(futures[j].partition)
                        = IF j <= n % k THEN (n \div k) + 1 ELSE n \div k
               /\ Cardinality(UNION {PartitionRows(j) : j \in 1..k}) = n

C23_Witness ==
    /\ Submitted
    /\ partitions = 4
    /\ Len(df_at_call) = 11
    /\ Len(futures[1].partition) = 3
    /\ Len(futures[3].partition) = 3
    /\ Len(futures[4].partition) = 2

--------------------------------------------------------------------------
(* The step chain of one run, checked under SpecExec *)

\* what step i of ss is given when the chain starts on d and every earlier
\* step returned: d for the first step, the output of step i-1 for the others
RECURSIVE StepInput(_, _, _)
StepInput(d, ss, i) ==
    IF i = 1 THEN d ELSE StepExecute(ss[i - 1], StepInput(d, ss, i - 1)).data

\* the run of the chain recorded in entry e started on d and ended with out:
\* it applied the steps from the first on, in order, each to the output of
\* the one before; either all returned and out is the output of the last, or
\* the last one applied failed, out is its failure and no later step ran
RunsChainInOrder(e, d, out) ==
    LET L == Len(e.applied)
    IN  /\ L <= Len(steps)
        /\ \A i \in 1..L : e.applied[i] = [pos |-> i, unit |-> steps[i]]
        /\ \A i \in 1..(L - 1) :
              StepExecute(steps[i], StepInput(d, steps, i)).status = "returned"
        /\ IF e.returned
           THEN /\ L = Len(steps)
                /\ out = Returned(StepInput(d, steps, L + 1))
                /\ L > 0 => StepExecute(steps[L], StepInput(d, steps, L)).status
                               = "returned"
           ELSE /\ L > 0
                /\ out.status = "raised"
                /\ out = StepExecute(steps[L], StepInput(d, steps, L))

\* C24: when execute has ended, every partition task, and the calling process
\* on the sequential path and in the fallback, has run the chain once on its
\* dataset: the steps in list order from the first, step i+1 on the output of
\* step i, up to the last step or to the first step that fails; no step after
\* a failed one is executed.
C24_ChainInOrderStopsAtFailure ==
    Executed =>
        /\ \A j \in DOMAIN futures :
              futures[j].state # "running"
                  => \E e \in step_log :
                        e.task = j
                          /\ RunsChainInOrder(e, futures[j].partition, futures[j].outcome)
        /\ path \in {"sequential", "fallback"}
              => \E e \in step_log : e.task = 0 /\ RunsChainInOrder(e, df_at_call, exec_out)
        /\ \A e \in step_log :
              /\ e.task = 0 => path \in {"sequential", "fallback"}
              /\ e.task > 0 => futures[e.task].state # "running"
              /\ \A f \in step_log : f.task = e.task => f = e

C24_Witness ==
    /\ Executed
    /\ steps = <<"Aggregator", "PatternRaise">>
    /\ \E e \in step_log : e.task > 0 /\ ~e.returned /\ Len(e.applied) = 1
    /\ \E e \in step_log :
         /\ e.task > 0
         /\ ~e.returned
         /\ Len(e.applied) = 2
         /\ StepExecute("PatternRaise", futures[e.task].partition).status = "returned"
    /\ \E e \in step_log : e.task = 0

--------------------------------------------------------------------------
(* Parallel and sequential execution compared, checked under SpecExec *)

\* the output of the unit on row i of d taken alone: no row or one row
OnRow(unit, d, i) == StepExecute(unit, <<d[i]>>)

\* the effect of the unit on a row depends only on that row: whenever the
\* unit returns on a dataset, it returns on each of its rows taken alone, and
\* its output holds, in row order, what it gives for each row alone
RowLocal(unit) ==
    \A d \in ExecDatasets :
        LET out == StepExecute(unit, d)
        IN  out.status = "returned"
              => /\ \A i \in 1..Len(d) : OnRow(unit, d, i).status = "returned"
                 /\ {out.data[p].id : p \in 1..Len(out.data)}
                       = {i \in 1..Len(d) : Len(OnRow(unit, d, i).data) > 0}
                 /\ \A p \in 1..Len(out.data) :
                       out.data[p] = OnRow(unit, d, out.data[p].id).data[1]
                 /\ \A p, q \in 1..Len(out.data) :
                       p < q => out.data[p].id < out.data[q].id

RowLocalKinds == {unit \in StepKinds : RowLocal(unit)}

\* C25: when every step is row-local and the chain does not fail on the
\* dataset, execute with k > 1 partitions returns what the sequential path
\* returns on the same dataset: the same rows in the same order.
C25_ParallelEqualsSequential ==
    (Executed /\ partitions > 1
       /\ (\A i \in 1..Len(steps) : steps[i] \in RowLocalKinds)
       /\ ProcessPartition(df_at_call, steps).status = "returned")
        => /\ path = "parallel"
           /\ exec_out = Result(ProcessPartition(df_at_call, steps))

C25_Witness ==
    /\ Executed
    /\ path = "parallel"
    /\ partitions = 2
    /\ Len(steps) = 2
    /\ \A i \in 1..Len(steps) : steps[i] \in RowLocalKinds
    /\ "Aggregator" \notin RowLocalKinds
    /\ Len(df_at_call) = 3
    /\ Len(exec_out.data) = 2
    /\ exec_out.data[1].id = 1
    /\ exec_out.data[2].id = 3
    /\ exec_out = Result(ProcessPartition(df_at_call, steps))

--------------------------------------------------------------------------
(* Error handling of Pipeline.run, checked under Spec *)

\* C26: with max_error_rate set and a windowed input of zero rows (an empty
\* input, or every row older than the cutoff), a run whose executor returned
\* returns the executor's empty output; the error-rate computation does not
\* fail.
C26_EmptyInputCompletes ==
    (Done /\ error_handling.present /\ Len(df) = 0 /\ exec_out.status = "returned")
        => run_out = Returned(exec_out.data)

\* C27: the outcome of a run in which the metrics sink's collect was called
\* is the outcome of the executor and the error-rate check: the dataset they
\* return or the error they raise, whatever happens inside collect.
C27_CollectFailureContained ==
    (Done /\ Len(collect_calls) > 0) => run_out = TryBody(error_handling)

--------------------------------------------------------------------------
(* Termination of ParallelExecutor.execute, checked under SpecTerm *)

\* execute has been called and has not returned or raised
InExecute == pc \in {"collect", "shutdown"}

\* how many runs of the step chain have gone over row r of the input
RunsOverRow(r) ==
    chain_runs[0]
      + Cardinality({j \in DOMAIN futures : chain_runs[j] > 0 /\ r \in PartitionRows(j)})

\* the runs of the chain are bounded: each task runs it at most once, the
\* calling process at most once, so no input row is gone over more than
\* twice; a fallback run that failed is the one run of the calling process,
\* and its failure is what execute raises
AtMostOneFallback ==
    /\ \A j \in 0..MaxPartitions : chain_runs[j] <= 1
    /\ \A r \in 1..Len(df_at_call) : RunsOverRow(r) <= 2
    /\ Executed => exec_out.status \in {"returned", "raised"}
    /\ \A e \in step_log :
          (e.task = 0 /\ ~e.returned)
              => /\ Executed
                 /\ chain_runs[0] = 1
                 /\ exec_out.status = "raised"
                 /\ exec_out = Result(ProcessPartition(df_at_call, steps))

\* C28: with every step invocation terminating, every call of execute ends
\* with a dataset or a failure, and the fallback is attempted at most once:
\* no input row is gone over by the step chain more than twice, and a failure
\* of the fallback run is raised to the caller without another run.
C28_TerminatesWithOneFallback ==
    /\ []AtMostOneFallback
    /\ InExecute ~> Executed

C28_Witness ==
    /\ Executed
    /\ path = "fallback"
    /\ exec_out.status = "raised"
    /\ chain_runs[0] = 1
    /\ running_at_raise
    /\ \E r \in 1..Len(df_at_call) : RunsOverRow(r) = 2
    /\ \E j \in DOMAIN futures :
         futures[j].outcome.status = "returned" /\ Len(futures[j].outcome.data) > 0

--------------------------------------------------------------------------
(* Reuse of a Pipeline across runs, checked under SpecReuse *)

\* the pipeline has the step list, executor settings, incremental window and
\* sink its constructor gave it
PipelineAsConstructed ==
    /\ steps = built.steps
    /\ partitions = built.partitions
    /\ use_disk = built.use_disk
    /\ incremental_config = built.incremental_config
    /\ metrics = built.metrics

\* this run was given the dataset and the error policy of the kept run
SameCall ==
    /\ Done
    /\ kept.valid
    /\ kept.input = df_at_call
    /\ kept.error_handling = error_handling

\* C29 as stated: whatever runs came before and whether they returned or
\* raised, the pipeline is as constructed, and a run on the same dataset with
\* the same error policy as an earlier run has the outcome of that run.
C29_SameCallSameOutcome ==
    /\ PipelineAsConstructed
    /\ SameCall => run_out = kept.out

\* C29, amended: the pipeline is as constructed after every run, and a run
\* on the same dataset with the same error policy as an earlier run has the
\* outcome of that run when the same rows are inside the incremental window
\* at both runs, as they always are without a window; runs made in between,
\* under the same or another max_error_rate, change nothing of this.
C29_SameWindowSameOutcome ==
    /\ PipelineAsConstructed
    /\ (SameCall /\ kept.windowed = df) => run_out = kept.out

C29_Witness ==
    /\ SameCall
    /\ kept.windowed = df
    /\ incremental_config.enabled
    /\ metrics
    /\ Len(df) > 0
    /\ Len(df) < Len(df_at_call)
    /\ run_out = Raised(ErrorRateExceeded)
    /\ kept.out = run_out

====
